---- MODULE Spec2Model ----
(***************************************************************************)
(* A model of boomer_bot.js: the Polymarket new-listing alert bot.         *)
(*                                                                         *)
(* The process runs on the Node.js event loop: every handler runs to its   *)
(* next `await` without interruption, so one action of this model is one   *)
(* such run-to-await segment of a callback or of an async function.        *)
(***************************************************************************)
EXTENDS Integers, Sequences, FiniteSets, TLC

(***************************************************************************)
(* Bounds of the model.                                                    *)
(***************************************************************************)
MaxInFlight == 2    \* invocations of monitorMarkets that have not ended yet
MaxToggles == 2     \* toggle callbacks the transport delivers

(***************************************************************************)
(* JavaScript values.  `undefined` is a value of its own; a property that  *)
(* an object does not have reads as `undefined`.                           *)
(***************************************************************************)
Undefined == "<undefined>"

Has(obj, prop) == prop \in DOMAIN obj

\* obj.id
IdOf(obj) == IF Has(obj, "id") THEN obj.id ELSE Undefined

(***************************************************************************)
(* CATEGORIES, boomer_bot.js lines 38-47.                                  *)
(***************************************************************************)
POLITICS == "Politics"
CRYPTO == "Crypto"
SPORTS == "Sports"
BUSINESS == "Business"
SCIENCE == "Science"
POPCULTURE == "Pop Culture"
NEWS == "News"
CATEGORY_OTHER == "Other"

CATEGORIES ==
    {POLITICS, CRYPTO, SPORTS, BUSINESS, SCIENCE, POPCULTURE, NEWS, CATEGORY_OTHER}

(***************************************************************************)
(* String.prototype.toLowerCase, on the letters the model's texts use.     *)
(***************************************************************************)
UpperCase == <<"A","B","C","D","E","F","G","H","I","J","K","L","M",
               "N","O","P","Q","R","S","T","U","V","W","X","Y","Z">>
LowerCase == <<"a","b","c","d","e","f","g","h","i","j","k","l","m",
               "n","o","p","q","r","s","t","u","v","w","x","y","z">>

LowerChar(ch) ==
    IF \E i \in 1..Len(UpperCase) : UpperCase[i] = ch
    THEN LowerCase[CHOOSE i \in 1..Len(UpperCase) : UpperCase[i] = ch]
    ELSE ch

RECURSIVE toLowerCase(_)
toLowerCase(s) ==
    IF Len(s) = 0 THEN ""
    ELSE LowerChar(SubSeq(s, 1, 1)) \o toLowerCase(SubSeq(s, 2, Len(s)))

\* String.prototype.includes
includes(text, kw) ==
    \E i \in 1..(Len(text) - Len(kw) + 1) : SubSeq(text, i, i + Len(kw) - 1) = kw

\* Array.prototype.toString: the elements joined by ","
RECURSIVE ArrayToString(_)
ArrayToString(arr) ==
    IF Len(arr) = 0 THEN ""
    ELSE IF Len(arr) = 1 THEN arr[1]
    ELSE arr[1] \o "," \o ArrayToString(Tail(arr))

\* market.question + ' ' + (market.group || '') + ' ' + (market.tags || [])
MarketText(market) ==
    (IF Has(market, "question") THEN market.question ELSE "undefined")
    \o " " \o
    (IF Has(market, "group") THEN market.group ELSE "")
    \o " " \o
    (IF Has(market, "tags") THEN ArrayToString(market.tags) ELSE "")

\* A mutant of detectCategory: the Business rule is tried before the Crypto rule.
detectCategoryBusinessFirst(market) ==
    LET text == toLowerCase(MarketText(market)) IN
    IF includes(text, "stock") \/ includes(text, "fed") \/ includes(text, "rate")
       \/ includes(text, "recession") \/ includes(text, "economy")
       \/ includes(text, "business") \/ includes(text, "price") THEN BUSINESS
    ELSE IF includes(text, "bitcoin") \/ includes(text, "crypto") \/ includes(text, "eth")
       \/ includes(text, "solana") \/ includes(text, "coin") \/ includes(text, "token")
    THEN CRYPTO
    ELSE IF includes(text, "election") \/ includes(text, "trump") \/ includes(text, "biden")
       \/ includes(text, "senate") \/ includes(text, "politics") \/ includes(text, "vote")
    THEN POLITICS
    ELSE IF includes(text, "nfl") \/ includes(text, "nba") \/ includes(text, "football")
       \/ includes(text, "soccer") \/ includes(text, "sport") \/ includes(text, "f1")
       \/ includes(text, "ufc") THEN SPORTS
    ELSE IF includes(text, "science") \/ includes(text, "space") \/ includes(text, "nasa")
       \/ includes(text, "apple") \/ includes(text, "gpt") \/ includes(text, "ai ")
       \/ includes(text, "tech") THEN SCIENCE
    ELSE IF includes(text, "movie") \/ includes(text, "music") \/ includes(text, "song")
       \/ includes(text, "grammy") \/ includes(text, "oscar") \/ includes(text, "celebrity")
       \/ includes(text, "spotify") THEN POPCULTURE
    ELSE IF includes(text, "war") \/ includes(text, "weather") \/ includes(text, "climate")
       \/ includes(text, "news") \/ includes(text, "global") THEN NEWS
    ELSE CATEGORY_OTHER

\* detectCategory, boomer_bot.js lines 143-155
detectCategory(market) ==
    LET text == toLowerCase(MarketText(market)) IN
    IF includes(text, "bitcoin") \/ includes(text, "crypto") \/ includes(text, "eth")
       \/ includes(text, "solana") \/ includes(text, "coin") \/ includes(text, "token")
    THEN CRYPTO
    ELSE IF includes(text, "election") \/ includes(text, "trump") \/ includes(text, "biden")
       \/ includes(text, "senate") \/ includes(text, "politics") \/ includes(text, "vote")
    THEN POLITICS
    ELSE IF includes(text, "nfl") \/ includes(text, "nba") \/ includes(text, "football")
       \/ includes(text, "soccer") \/ includes(text, "sport") \/ includes(text, "f1")
       \/ includes(text, "ufc") THEN SPORTS
    ELSE IF includes(text, "stock") \/ includes(text, "fed") \/ includes(text, "rate")
       \/ includes(text, "recession") \/ includes(text, "economy")
       \/ includes(text, "business") \/ includes(text, "price") THEN BUSINESS
    ELSE IF includes(text, "science") \/ includes(text, "space") \/ includes(text, "nasa")
       \/ includes(text, "apple") \/ includes(text, "gpt") \/ includes(text, "ai ")
       \/ includes(text, "tech") THEN SCIENCE
    ELSE IF includes(text, "movie") \/ includes(text, "music") \/ includes(text, "song")
       \/ includes(text, "grammy") \/ includes(text, "oscar") \/ includes(text, "celebrity")
       \/ includes(text, "spotify") THEN POPCULTURE
    ELSE IF includes(text, "war") \/ includes(text, "weather") \/ includes(text, "climate")
       \/ includes(text, "news") \/ includes(text, "global") THEN NEWS
    ELSE CATEGORY_OTHER

(***************************************************************************)
(* The inputs of the model.                                                *)
(***************************************************************************)
\* chat ids the transport delivers updates from
Chats == {"A", "B"}

\* query.data of the callback queries the transport delivers
CallbackData == {"toggle_Business", "help"}

\* The objects the upstream feed lists.  "ch" is one character of a response
\* body that is a string: a string has none of the properties the code reads.
Entity ==
    ("m1" :> [id |-> "1", question |-> "Will Bitcoin hit $100k?"])
    @@ ("m2" :> [id |-> "2", question |-> "Will the Fed cut rates?"])
    @@ ("ch" :> <<>>)

\* response.data of a request that succeeds: an array of markets, null, an
\* error object, or a string (here of two characters)
Bodies ==
    {[kind |-> "array", items |-> f] :
        f \in {<<>>, <<"m1">>, <<"m1", "m2">>, <<"m2", "m2">>}}
    \cup {[kind |-> "null", items |-> <<>>],
          [kind |-> "object", items |-> <<>>],
          [kind |-> "string", items |-> <<"ch", "ch">>]}

\* what axios.get settles with
Rejected == [settled |-> "rejected", data |-> [kind |-> "null", items |-> <<>>]]

Outcomes == {[settled |-> "resolved", data |-> b] : b \in Bodies} \cup {Rejected}

\* the outcomes whose body is no string
UsualOutcomes == {o \in Outcomes : o.data.kind # "string"}

\* An invocation of monitorMarkets occupies one of these from its call to its
\* end; the number of invocations over the life of the process is not bounded.
Cycles == 1..MaxInFlight

CategoryOf == [k \in DOMAIN Entity |-> detectCategory(Entity[k])]

VARIABLES
    token,        \* process.env.TELEGRAM_BOT_TOKEN is set
    phase,        \* "boot", "running" or "exited"
    timer,        \* setInterval(monitorMarkets, CHECK_INTERVAL) is armed
    seenMarkets,  \* the Set of market ids
    firstRun,
    userPrefs,    \* the Map chatId -> prefs, as its entries in insertion order
    cycle,        \* the invocations of monitorMarkets that have not ended
    feed,         \* the upstream: any response, or a scripted run of responses
    routed,       \* history: the markets sendAlert was called for, in order
    baseline,     \* history: the ids fetched by a first-run pass
    nToggle,      \* history: toggle callbacks handled, by chat and key
    fetchFailed,  \* history: a request to the upstream was rejected
    interacted,   \* history: the chats that sent /start, /settings or a toggle
    cls           \* the classifier on its own: an input and its result

vars == <<token, phase, timer, seenMarkets, firstRun, userPrefs, cycle, feed,
          routed, baseline, nToggle, fetchFailed, interacted, cls>>

(***************************************************************************)
(* userPrefs, the Map.                                                     *)
(***************************************************************************)
\* userPrefs.has(chatId)
MapHas(up, chatId) == \E i \in 1..Len(up) : up[i].chatId = chatId

MapIndex(up, chatId) == CHOOSE i \in 1..Len(up) : up[i].chatId = chatId

\* userPrefs.get(chatId), of a chat the Map has
MapGet(up, chatId) == up[MapIndex(up, chatId)].prefs

\* userPrefs.set(chatId, prefs): a new key is appended, a known key keeps its place
MapSet(up, chatId, prefs) ==
    IF MapHas(up, chatId)
    THEN [up EXCEPT ![MapIndex(up, chatId)].prefs = prefs]
    ELSE Append(up, [chatId |-> chatId, prefs |-> prefs])

MapKeys(up) == {up[i].chatId : i \in 1..Len(up)}

\* prefs[key], read as a condition: a key the object lacks is undefined, falsy
Flag(prefs, key) == IF key \in DOMAIN prefs THEN prefs[key] ELSE FALSE

\* the record of a new chat
DefaultPrefs == [t \in CATEGORIES |-> TRUE]

\* A mutant of getUserPrefs: a new record starts with every topic disabled.
getUserPrefsDefaultOff(up, chatId) ==
    IF ~MapHas(up, chatId)
    THEN MapSet(up, chatId, [t \in CATEGORIES |-> FALSE])
    ELSE up

\* getUserPrefs, lines 49-63: the Map after the call
getUserPrefs(up, chatId) ==
    IF ~MapHas(up, chatId) THEN MapSet(up, chatId, DefaultPrefs) ELSE up

\* data.startsWith('toggle_')
IsToggle(data) == Len(data) >= 7 /\ SubSeq(data, 1, 7) = "toggle_"

\* data.replace('toggle_', ''), of a data that starts with it
ToggleCategory(data) == SubSeq(data, 8, Len(data))

\* A mutant of TogglePrefs: every flag of the record is flipped.
TogglePrefsAll(prefs, category) ==
    [k \in DOMAIN prefs \cup {category} |-> ~Flag(prefs, k)]

\* A mutant of TogglePrefs: a key the record lacks resets the record.
TogglePrefsStrayResets(prefs, category) ==
    [k \in DOMAIN prefs \cup {category} |->
        IF category \in DOMAIN prefs
        THEN (IF k = category THEN ~prefs[k] ELSE prefs[k])
        ELSE FALSE]

\* A mutant of TogglePrefs: the flag is cleared instead of flipped.
TogglePrefsClear(prefs, category) ==
    [k \in DOMAIN prefs \cup {category} |->
        IF k = category THEN FALSE ELSE prefs[k]]

\* prefs[category] = !prefs[category], line 129
TogglePrefs(prefs, category) ==
    [k \in DOMAIN prefs \cup {category} |->
        IF k = category THEN ~Flag(prefs, category) ELSE prefs[k]]

(***************************************************************************)
(* fetchMarkets, monitorMarkets and sendAlert.                             *)
(***************************************************************************)
EmptyArray == [kind |-> "array", items |-> <<>>]

\* A mutant of fetchMarkets: the catch block returns nothing.
fetchMarketsCatchReturnsNothing(outcome) ==
    IF outcome.settled = "resolved"
    THEN IF outcome.data.kind = "null" THEN EmptyArray ELSE outcome.data
    ELSE [kind |-> "undefined", items |-> <<>>]

\* fetchMarkets, lines 158-173: what it returns once axios.get has settled
fetchMarkets(outcome) ==
    IF outcome.settled = "resolved"
    THEN IF outcome.data.kind = "null" THEN EmptyArray ELSE outcome.data
    ELSE EmptyArray

\* the values markets.forEach exists on
HasForEach(markets) == markets.kind = "array"

\* the values for (... of markets) iterates: an array by its elements, a
\* string by its characters
IsIterable(markets) == markets.kind \in {"array", "string"}

IdsOf(items) == {IdOf(Entity[items[i]]) : i \in 1..Len(items)}

\* A mutant of BaselineSeen: the first run records nothing.
BaselineSeenNothing(seen, items) == seen

\* markets.forEach(m => seenMarkets.add(m.id)), line 181
BaselineSeen(seen, items) == seen \cup IdsOf(items)

\* A mutant of AfterBaseline: the first run does not clear the flag.
AfterBaselineStillFirst == TRUE

\* firstRun = false, line 182
AfterBaseline == FALSE

\* A mutant of MarkSeen: the Set is replaced by the new id.
MarkSeenOnly(seen, id) == {id}

\* A mutant of MarkSeen: the id of a new market is not recorded.
MarkSeenNot(seen, id) == seen

\* seenMarkets.add(market.id), line 190
MarkSeen(seen, id) == seen \cup {id}

\* A mutant of NextMatch: the topic flag is consulted for the first delivery
\* of a call only.
NextMatchCheckedOnce(up, category, k) ==
    IF k = 0
    THEN (IF \E j \in 1..Len(up) : Flag(up[j].prefs, category)
          THEN CHOOSE j \in 1..Len(up) :
                  /\ Flag(up[j].prefs, category)
                  /\ \A i \in 1..(j - 1) : ~Flag(up[i].prefs, category)
          ELSE 0)
    ELSE (IF k < Len(up) THEN k + 1 ELSE 0)

\* A mutant of NextMatch: the topic flag is not consulted.
NextMatchAnyone(up, category, k) == IF k < Len(up) THEN k + 1 ELSE 0

\* The loop of lines 220-221 from the entry after the k-th: the index of the
\* next entry of the Map whose prefs[category] is truthy, 0 when there is none.
\* The Map's iterator is live: an entry appended during the loop is visited.
NextMatch(up, category, k) ==
    IF \E j \in (k + 1)..Len(up) : Flag(up[j].prefs, category)
    THEN CHOOSE j \in (k + 1)..Len(up) :
            /\ Flag(up[j].prefs, category)
            /\ \A i \in (k + 1)..(j - 1) : ~Flag(up[i].prefs, category)
    ELSE 0

\* A mutant of DeliveryThrows: no try/catch around bot.sendMessage.
DeliveryThrowsUncaught(result) == result = "failed"

\* Whether a delivery that settled with `result` throws out of sendAlert:
\* the catch of lines 227-229 takes every failure.
DeliveryThrows(result) == FALSE

Attempt(chatId) == [chatId |-> chatId, result |-> "pending"]

NoCall ==
    [market |-> "", category |-> "", known |-> {}, on |-> {}, flipped |-> {},
     att |-> <<>>]

\* sendAlert, lines 197-232, up to its first await: `it` is the Map entry whose
\* delivery is awaited (0: the call has returned).  The call keeps, as history,
\* the chats the Map had and those with the topic enabled when it began.
sendAlert(key, up) ==
    LET category == CategoryOf[key]
        j == NextMatch(up, category, 0)
    IN [it |-> j,
        call |-> [market |-> key,
                  category |-> category,
                  known |-> MapKeys(up),
                  on |-> {ch \in MapKeys(up) : Flag(MapGet(up, ch), category)},
                  flipped |-> {},
                  att |-> IF j = 0 THEN <<>> ELSE <<Attempt(up[j].chatId)>>]]

\* The for loop of monitorMarkets, lines 187-193, over the markets the
\* iterator has not yielded yet, up to the next await of a delivery or to the
\* end: `rest` is what is left to iterate after the market being routed.
RECURSIVE MonitorLoop(_, _, _, _)
MonitorLoop(items, seen, up, log) ==
    IF items = <<>>
    THEN [pc |-> "idle", rest |-> <<>>, it |-> 0, call |-> NoCall, seen |-> seen,
          log |-> log]
    ELSE LET market == Head(items)
             id == IdOf(Entity[market])
         IN
         IF id \in seen
         THEN MonitorLoop(Tail(items), seen, up, log)
         ELSE LET r == sendAlert(market, up) IN
              IF r.it = 0
              THEN MonitorLoop(Tail(items), MarkSeen(seen, id), up, Append(log, market))
              ELSE [pc |-> "send", rest |-> Tail(items), it |-> r.it, call |-> r.call,
                    seen |-> MarkSeen(seen, id), log |-> Append(log, market)]

\* no invocation in this place
IdleCycle == [pc |-> "idle", rest |-> <<>>, it |-> 0, call |-> NoCall]

\* monitorMarkets up to `await fetchMarkets()`, lines 176-178 and 158-167
FetchingCycle == [IdleCycle EXCEPT !.pc = "fetch"]

\* monitorMarkets in the loop of lines 187-193, or past it
LoopingCycle(r) == [pc |-> r.pc, rest |-> r.rest, it |-> r.it, call |-> r.call]

(***************************************************************************)
(* The initial state: the module has not been loaded yet.                  *)
(***************************************************************************)
ToggleKeys == {ToggleCategory(d) : d \in {x \in CallbackData : IsToggle(x)}}

RECURSIVE SumOver(_, _)
SumOver(f, S) ==
    IF S = {} THEN 0
    ELSE LET x == CHOOSE y \in S : TRUE IN f[x] + SumOver(f, S \ {x})

\* the toggle callbacks handled so far
TogglesHandled == SumOver(nToggle, Chats \X ToggleKeys)

\* the upstream may answer a request with any of `any`
AnyFeed(any) == [scripted |-> FALSE, rest |-> <<>>, any |-> any]

InitBot ==
    /\ token \in BOOLEAN
    /\ phase = "boot"
    /\ timer = FALSE
    /\ seenMarkets = {}
    /\ firstRun = TRUE
    /\ userPrefs = <<>>
    /\ cycle = [c \in Cycles |-> IdleCycle]
    /\ routed = <<>>
    /\ baseline = {}
    /\ nToggle = [p \in Chats \X ToggleKeys |-> 0]
    /\ fetchFailed = FALSE
    /\ interacted = {}

Init == InitBot /\ feed = AnyFeed(UsualOutcomes) /\ cls = <<>>

\* A mutant of Startup: the token is not checked.
StartupUnchecked ==
    /\ phase = "boot"
    /\ phase' = "running"
    /\ timer' = TRUE
    /\ cycle' = [cycle EXCEPT ![1] = FetchingCycle]
    /\ UNCHANGED <<token, seenMarkets, firstRun, userPrefs, feed, routed, baseline,
                   nToggle, fetchFailed, interacted, cls>>

(***************************************************************************)
(* Loading the module, lines 1-242: without a token the process exits at   *)
(* line 25; with one, the handlers are registered, the timer is armed and  *)
(* monitorMarkets is called and runs to its await of the fetch.            *)
(***************************************************************************)
Startup ==
    /\ phase = "boot"
    /\ IF ~token
       THEN /\ phase' = "exited"
            /\ UNCHANGED <<timer, cycle>>
       ELSE /\ phase' = "running"
            /\ timer' = TRUE
            /\ cycle' = [cycle EXCEPT ![1] = FetchingCycle]
    /\ UNCHANGED <<token, seenMarkets, firstRun, userPrefs, feed, routed, baseline,
                   nToggle, fetchFailed, interacted, cls>>

(***************************************************************************)
(* The timer fires, line 235: setInterval calls monitorMarkets whatever    *)
(* the earlier invocations are doing.                                      *)
(***************************************************************************)
Tick ==
    /\ phase = "running"
    /\ timer
    /\ \E c \in Cycles :
        /\ cycle[c].pc = "idle"
        /\ \A b \in 1..(c - 1) : cycle[b].pc # "idle"
        /\ cycle' = [cycle EXCEPT ![c] = FetchingCycle]
    /\ UNCHANGED <<token, phase, timer, seenMarkets, firstRun, userPrefs, feed,
                   routed, baseline, nToggle, fetchFailed, interacted, cls>>

(***************************************************************************)
(* The promise of monitorMarkets rejects and nothing handles it.  What the *)
(* runtime does is its own choice: it ends the process or only warns.      *)
(***************************************************************************)
UnhandledRejection(exits) == phase' = IF exits THEN "exited" ELSE "running"

\* the upstream answers a request with `outcome`
Serves(outcome) ==
    IF feed.scripted
    THEN /\ feed.rest # <<>>
         /\ outcome = Head(feed.rest)
         /\ feed' = [feed EXCEPT !.rest = Tail(@)]
    ELSE /\ outcome \in feed.any
         /\ UNCHANGED feed

(***************************************************************************)
(* axios.get settles: monitorMarkets resumes at line 178 and runs to its   *)
(* end or to the await of the first delivery.                              *)
(***************************************************************************)
FetchSettles(c, outcome) ==
    /\ phase = "running"
    /\ cycle[c].pc = "fetch"
    /\ Serves(outcome)
    /\ LET markets == fetchMarkets(outcome) IN
       IF firstRun
       THEN IF ~HasForEach(markets)
            THEN \* TypeError: markets.forEach is not a function
                 /\ cycle' = [cycle EXCEPT ![c] = IdleCycle]
                 /\ \E exits \in BOOLEAN : UnhandledRejection(exits)
                 /\ UNCHANGED <<seenMarkets, firstRun, routed, baseline>>
            ELSE /\ seenMarkets' = BaselineSeen(seenMarkets, markets.items)
                 /\ firstRun' = AfterBaseline
                 /\ baseline' = baseline \cup IdsOf(markets.items)
                 /\ cycle' = [cycle EXCEPT ![c] = IdleCycle]
                 /\ UNCHANGED <<phase, routed>>
       ELSE IF ~IsIterable(markets)
            THEN \* TypeError: markets is not iterable
                 /\ cycle' = [cycle EXCEPT ![c] = IdleCycle]
                 /\ \E exits \in BOOLEAN : UnhandledRejection(exits)
                 /\ UNCHANGED <<seenMarkets, firstRun, routed, baseline>>
            ELSE LET r == MonitorLoop(markets.items, seenMarkets, userPrefs, routed)
                 IN /\ seenMarkets' = r.seen
                    /\ routed' = r.log
                    /\ cycle' = [cycle EXCEPT ![c] = LoopingCycle(r)]
                    /\ UNCHANGED <<phase, firstRun, baseline>>
    /\ fetchFailed' = (fetchFailed \/ outcome.settled = "rejected")
    /\ UNCHANGED <<token, timer, userPrefs, nToggle, interacted, cls>>

(***************************************************************************)
(* bot.sendMessage of line 223 settles: sendAlert resumes, goes on to the  *)
(* next entry of the Map, and at the end of the Map monitorMarkets goes on *)
(* to the next market.                                                     *)
(***************************************************************************)
SendSettles(c, result) ==
    /\ phase = "running"
    /\ cycle[c].pc = "send"
    /\ LET call == cycle[c].call
           settledAtt == [call.att EXCEPT ![Len(call.att)].result = result]
       IN
       IF DeliveryThrows(result)
       THEN /\ cycle' = [cycle EXCEPT ![c] = IdleCycle]
            /\ \E exits \in BOOLEAN : UnhandledRejection(exits)
            /\ UNCHANGED <<seenMarkets, routed>>
       ELSE LET j == NextMatch(userPrefs, call.category, cycle[c].it) IN
            IF j # 0
            THEN /\ cycle' = [cycle EXCEPT
                        ![c].it = j,
                        ![c].call.att = Append(settledAtt, Attempt(userPrefs[j].chatId))]
                 /\ UNCHANGED <<phase, seenMarkets, routed>>
            ELSE LET r == MonitorLoop(cycle[c].rest, seenMarkets, userPrefs, routed)
                 IN /\ seenMarkets' = r.seen
                    /\ routed' = r.log
                    /\ cycle' = [cycle EXCEPT ![c] = LoopingCycle(r)]
                    /\ UNCHANGED phase
    /\ UNCHANGED <<token, timer, firstRun, userPrefs, feed, baseline, nToggle,
                   fetchFailed, interacted, cls>>

(***************************************************************************)
(* The handlers of the subscriber's updates.  Their replies to the chat    *)
(* (sendMessage, editMessageReplyMarkup, answerCallbackQuery) are not      *)
(* awaited and change nothing of the state.                                *)
(***************************************************************************)
\* bot.onText(/\/start/), lines 94-109
OnStart(chatId) ==
    /\ phase = "running"
    /\ userPrefs' = getUserPrefs(userPrefs, chatId)
    /\ interacted' = interacted \cup {chatId}
    /\ UNCHANGED <<token, phase, timer, seenMarkets, firstRun, cycle, feed, routed,
                   baseline, nToggle, fetchFailed, cls>>

\* bot.onText(/\/settings/), lines 111-117: getSettingsKeyboard calls getUserPrefs
OnSettings(chatId) ==
    /\ phase = "running"
    /\ userPrefs' = getUserPrefs(userPrefs, chatId)
    /\ interacted' = interacted \cup {chatId}
    /\ UNCHANGED <<token, phase, timer, seenMarkets, firstRun, cycle, feed, routed,
                   baseline, nToggle, fetchFailed, cls>>

\* bot.on('callback_query'), lines 120-140
OnCallbackQuery(chatId, data) ==
    /\ phase = "running"
    /\ IF IsToggle(data)
       THEN LET category == ToggleCategory(data)
                up == getUserPrefs(userPrefs, chatId)
                prefs == TogglePrefs(MapGet(up, chatId), category)
            IN /\ TogglesHandled < MaxToggles
               /\ userPrefs' = MapSet(up, chatId, prefs)
               /\ nToggle' = [nToggle EXCEPT ![<<chatId, category>>] = @ + 1]
               /\ interacted' = interacted \cup {chatId}
               \* history: the calls of sendAlert under way see the flag change
               /\ cycle' = [c \in Cycles |->
                    IF cycle[c].pc = "send" /\ cycle[c].call.category = category
                    THEN [cycle[c] EXCEPT !.call.flipped = @ \cup {chatId}]
                    ELSE cycle[c]]
       ELSE UNCHANGED <<userPrefs, nToggle, interacted, cycle>>
    /\ UNCHANGED <<token, phase, timer, seenMarkets, firstRun, feed, routed, baseline,
                   fetchFailed, cls>>

Next ==
    \/ Startup
    \/ Tick
    \/ \E c \in Cycles, outcome \in Outcomes : FetchSettles(c, outcome)
    \/ \E c \in Cycles, result \in {"ok", "failed"} : SendSettles(c, result)
    \/ \E chatId \in Chats : OnStart(chatId)
    \/ \E chatId \in Chats : OnSettings(chatId)
    \/ \E chatId \in Chats, data \in CallbackData : OnCallbackQuery(chatId, data)

Spec == Init /\ [][Next]_vars

(***************************************************************************)
(* The scenario of two polls: the upstream answers the first request that  *)
(* settles with the market 1 and the second with the markets 1 and 2, and  *)
(* answers no further request.                                             *)
(***************************************************************************)
ScenarioFeed ==
    [scripted |-> TRUE,
     rest |-> <<[settled |-> "resolved",
                 data |-> [kind |-> "array", items |-> <<"m1">>]],
                [settled |-> "resolved",
                 data |-> [kind |-> "array", items |-> <<"m1", "m2">>]]>>,
     any |-> {}]

InitScenario == InitBot /\ feed = ScenarioFeed /\ cls = <<>>

SpecScenario == InitScenario /\ [][Next]_vars

(***************************************************************************)
(* The classifier on its own: detectCategory applied to one market.        *)
(***************************************************************************)
Questions ==
    {"bitcoin price surge", "Will Bitcoin hit $100k?", "Will the Fed cut rates?",
     "Trump vote on Ethereum", "NFL stock", "NASA movie", "Grammy war",
     "Global weather", "Who wins?", "Dubai", "SENATE RECESSION"}

Groups == {"", "Sports", "Tech", "Oscars 2025"}

TagLists == {<<>>, <<"News">>, <<"elect", "ion">>, <<"Music", "Economy">>}

ClassifierInputs ==
    {[question |-> q] : q \in Questions}
    \cup {[question |-> q, group |-> g] : q \in Questions, g \in Groups}
    \cup {[question |-> q, tags |-> t] : q \in Questions, t \in TagLists}
    \cup {[question |-> q, group |-> g, tags |-> t] :
            q \in Questions, g \in Groups, t \in TagLists}
    \cup {[group |-> g, tags |-> t] : g \in Groups, t \in TagLists}

InitClassify ==
    /\ InitBot
    /\ feed = AnyFeed({})
    /\ cls \in {[market |-> m, category |-> Undefined] : m \in ClassifierInputs}

Classify ==
    /\ cls.category = Undefined
    /\ cls' = [cls EXCEPT !.category = detectCategory(cls.market)]
    /\ UNCHANGED <<token, phase, timer, seenMarkets, firstRun, userPrefs, cycle, feed,
                   routed, baseline, nToggle, fetchFailed, interacted>>

SpecClassify == InitClassify /\ [][Classify]_vars

(***************************************************************************)
(* What the properties below read off the state.                           *)
(***************************************************************************)
\* the id of the i-th market sendAlert was called for
RoutedId(i) == IdOf(Entity[routed[i]])

\* the deliveries a call of sendAlert has attempted to a chat
Attempts(call, chatId) ==
    Cardinality({i \in 1..Len(call.att) : call.att[i].chatId = chatId})

\* the chats the Map had when the call began, whose flag for the call's topic
\* has not been toggled since
Steady(call) == call.known \ call.flipped

\* this step ends the call of sendAlert that invocation c is inside
CallEnds(c) ==
    /\ cycle[c].pc = "send"
    /\ \/ cycle'[c].pc # "send"
       \/ cycle'[c].call.market # cycle[c].call.market

\* the first market of `items` whose id is not in `seen`, "" when there is none
RECURSIVE FirstNew(_, _)
FirstNew(items, seen) ==
    IF items = <<>> THEN ""
    ELSE IF IdOf(Entity[Head(items)]) \notin seen THEN Head(items)
    ELSE FirstNew(Tail(items), seen)

(***************************************************************************)
(* C1. Baseline suppression: as long as firstRun is true no market has     *)
(* been routed, and every id that a first-run pass fetched is in           *)
(* seenMarkets from the end of that pass on and is never routed.           *)
(***************************************************************************)
C1_BaselineSuppression ==
    /\ firstRun => routed = <<>>
    /\ baseline \subseteq seenMarkets
    /\ \A i \in 1..Len(routed) : RoutedId(i) \notin baseline

\* a first-run pass fetched market 1, and a later poll routed market 2 alone
C1_Witness ==
    /\ ~firstRun
    /\ baseline = {"1"}
    /\ routed = <<"m2">>

(***************************************************************************)
(* C2. At-most-once alerting: no id is routed twice, every routed id is in *)
(* seenMarkets, and a step routes only ids that seenMarkets did not hold   *)
(* before the step and holds after it.                                     *)
(***************************************************************************)
C2_NoRepeat ==
    /\ \A i, j \in 1..Len(routed) : RoutedId(i) = RoutedId(j) => i = j
    /\ \A i \in 1..Len(routed) : RoutedId(i) \in seenMarkets

C2_RoutesOnlyNew ==
    /\ Len(routed') >= Len(routed)
    /\ SubSeq(routed', 1, Len(routed)) = routed
    /\ \A i \in (Len(routed) + 1)..Len(routed') :
          /\ IdOf(Entity[routed'[i]]) \notin seenMarkets
          /\ IdOf(Entity[routed'[i]]) \in seenMarkets'

C2_AtMostOnce == []C2_NoRepeat /\ [][C2_RoutesOnlyNew]_vars

\* market 2 has been routed, a delivery of it failed, and the same response
\* lists market 2 once more
C2_Witness ==
    \E c \in Cycles :
        /\ cycle[c].pc = "send"
        /\ cycle[c].call.market = "m2"
        /\ cycle[c].rest = <<"m2">>
        /\ \E i \in 1..Len(cycle[c].call.att) : cycle[c].call.att[i].result = "failed"
        /\ routed = <<"m2">>

(***************************************************************************)
(* C3. Routing notifies exactly the matching subscribers: of the chats the *)
(* Map had when a call of sendAlert began and whose flag for the market's  *)
(* topic was not toggled during the call, the call attempts one delivery   *)
(* to each chat with the flag enabled and none to a chat with it disabled; *)
(* a call that returns without awaiting a delivery found no chat enabled.  *)
(***************************************************************************)
Due(call, chatId) == IF chatId \in call.on THEN 1 ELSE 0

C3_NoExcess ==
    \A c \in Cycles :
        cycle[c].pc = "send" =>
            \A ch \in Steady(cycle[c].call) :
                Attempts(cycle[c].call, ch) <= Due(cycle[c].call, ch)

C3_ExactAtEnd ==
    \A c \in Cycles :
        CallEnds(c) =>
            \A ch \in Steady(cycle[c].call) :
                Attempts(cycle[c].call, ch) = Due(cycle[c].call, ch)

C3_NoneIfNotAwaited ==
    \A i \in (Len(routed) + 1)..Len(routed') :
        (\A c \in Cycles : ~(cycle'[c].pc = "send" /\ cycle'[c].call.market = routed'[i]))
        => \A ch \in MapKeys(userPrefs) :
              ~Flag(MapGet(userPrefs, ch), CategoryOf[routed'[i]])

C3_RoutingExact ==
    []C3_NoExcess /\ [][C3_ExactAtEnd /\ C3_NoneIfNotAwaited]_vars

\* a call passed over the first chat of the Map, whose flag is disabled, and
\* awaits the delivery to the second, whose flag is enabled
C3_Witness ==
    \E c \in Cycles :
        /\ cycle[c].pc = "send"
        /\ Len(userPrefs) = 2
        /\ cycle[c].it = 2
        /\ Steady(cycle[c].call) = {userPrefs[1].chatId, userPrefs[2].chatId}
        /\ userPrefs[1].chatId \notin cycle[c].call.on
        /\ userPrefs[2].chatId \in cycle[c].call.on
        /\ Attempts(cycle[c].call, userPrefs[1].chatId) = 0
        /\ Attempts(cycle[c].call, userPrefs[2].chatId) = 1

(***************************************************************************)
(* C4. Per-recipient failure isolation: no call attempts a second delivery *)
(* to a chat; when a delivery fails the process keeps running, and the     *)
(* call either goes on to a delivery to a chat it has not tried, or ends   *)
(* having tried every chat it owed one, and then monitorMarkets routes the *)
(* next new market of its response, or ends when there is none.            *)
(***************************************************************************)
C4_NoRetry ==
    \A c \in Cycles : \A ch \in Chats : Attempts(cycle[c].call, ch) <= 1

C4_GoesOn(c) ==
    LET call == cycle[c].call
        after == cycle'[c].call
        new == FirstNew(cycle[c].rest, seenMarkets)
    IN /\ phase' = "running"
       /\ IF CallEnds(c)
          THEN /\ \A ch \in Steady(call) \cap call.on : Attempts(call, ch) = 1
               /\ IF new = ""
                  THEN cycle'[c] = IdleCycle /\ routed' = routed
                  ELSE /\ Len(routed') > Len(routed)
                       /\ routed'[Len(routed) + 1] = new
          ELSE /\ Len(after.att) = Len(call.att) + 1
               /\ after.att[Len(call.att)].result = "failed"
               /\ Attempts(call, after.att[Len(after.att)].chatId) = 0
               /\ after.market = call.market

C4_Isolated == \A c \in Cycles : SendSettles(c, "failed") => C4_GoesOn(c)

C4_FailureIsolation == []C4_NoRetry /\ [][C4_Isolated]_vars

\* the delivery to one chat has failed and the call awaits the delivery to
\* the next
C4_Witness ==
    \E c \in Cycles :
        /\ cycle[c].pc = "send"
        /\ Len(cycle[c].call.att) = 2
        /\ cycle[c].call.att[1].result = "failed"
        /\ cycle[c].call.att[2].result = "pending"
        /\ cycle[c].call.att[1].chatId # cycle[c].call.att[2].chatId

(***************************************************************************)
(* C5. A fetch failure is an empty cycle: the step in which a rejected     *)
(* request settles leaves seenMarkets as it was, routes nothing, ends that *)
(* invocation of monitorMarkets without another request, and leaves the    *)
(* process running and the other invocations where they were.              *)
(***************************************************************************)
C5_EmptyCycle ==
    \A c \in Cycles :
        FetchSettles(c, Rejected) =>
            /\ seenMarkets' = seenMarkets
            /\ routed' = routed
            /\ phase' = "running"
            /\ cycle'[c] = IdleCycle
            /\ \A d \in Cycles \ {c} : cycle'[d] = cycle[d]

C5_FetchFailure == [][C5_EmptyCycle]_vars

\* a request was rejected after the first run had recorded market 1, and
\* seenMarkets still holds just that
C5_Witness ==
    /\ fetchFailed
    /\ phase = "running"
    /\ baseline = {"1"}
    /\ seenMarkets = {"1"}
    /\ routed = <<>>

(***************************************************************************)
(* C6. Poll cycles do not overlap: at most one invocation of               *)
(* monitorMarkets is between its call and its end.                         *)
(***************************************************************************)
C6_NoOverlap == Cardinality({c \in Cycles : cycle[c].pc # "idle"}) <= 1

(***************************************************************************)
(* C7. The scenario of two polls (SpecScenario): the poll that gets the    *)
(* market 1 routes nothing and records the id 1; the poll that then gets   *)
(* the markets 1 and 2 calls sendAlert once, for market 2, classified      *)
(* Business, and that call attempts a delivery to each chat that had       *)
(* Business enabled throughout and to no chat that had it disabled.        *)
(***************************************************************************)
C7_Polls ==
    /\ Len(feed.rest) = 2 => routed = <<>> /\ seenMarkets = {}
    /\ Len(feed.rest) = 1 => routed = <<>> /\ seenMarkets = {"1"}
    /\ Len(feed.rest) = 0 => routed = <<"m2">> /\ seenMarkets = {"1", "2"}
    /\ \A c \in Cycles :
          cycle[c].pc = "send" =>
              /\ cycle[c].call.market = "m2"
              /\ cycle[c].call.category = BUSINESS
              /\ \A ch \in Steady(cycle[c].call) :
                    /\ ch \notin cycle[c].call.on => Attempts(cycle[c].call, ch) = 0
                    /\ ch \in cycle[c].call.on => Attempts(cycle[c].call, ch) <= 1

C7_Delivered ==
    \A c \in Cycles :
        CallEnds(c) =>
            \A ch \in Steady(cycle[c].call) \cap cycle[c].call.on :
                Attempts(cycle[c].call, ch) = 1

C7_Scenario == []C7_Polls /\ [][C7_Delivered]_vars

\* both polls are answered, and the call for market 2 has passed over a chat
\* with Business disabled and awaits the delivery to one with Business enabled
C7_Witness ==
    /\ Len(feed.rest) = 0
    /\ routed = <<"m2">>
    /\ \E c \in Cycles :
          /\ cycle[c].pc = "send"
          /\ cycle[c].call.category = BUSINESS
          /\ cycle[c].call.flipped = {}
          /\ \E a, b \in cycle[c].call.known :
                /\ a \notin cycle[c].call.on
                /\ b \in cycle[c].call.on
                /\ Attempts(cycle[c].call, a) = 0
                /\ Attempts(cycle[c].call, b) = 1
                /\ MapIndex(userPrefs, a) < MapIndex(userPrefs, b)

(***************************************************************************)
(* C8. Classifier precedence (SpecClassify): detectCategory returns the    *)
(* topic of the first rule, in the order Crypto, Politics, Sports,         *)
(* Business, Science, Pop Culture, News, one of whose keywords occurs in   *)
(* the lowercased text of the market, and Other when no rule has one; a    *)
(* market asking "bitcoin price surge" is Crypto.                          *)
(***************************************************************************)
Rules ==
    <<[topic |-> CRYPTO,
       keywords |-> {"bitcoin", "crypto", "eth", "solana", "coin", "token"}],
      [topic |-> POLITICS,
       keywords |-> {"election", "trump", "biden", "senate", "politics", "vote"}],
      [topic |-> SPORTS,
       keywords |-> {"nfl", "nba", "football", "soccer", "sport", "f1", "ufc"}],
      [topic |-> BUSINESS,
       keywords |-> {"stock", "fed", "rate", "recession", "economy", "business",
                     "price"}],
      [topic |-> SCIENCE,
       keywords |-> {"science", "space", "nasa", "apple", "gpt", "ai ", "tech"}],
      [topic |-> POPCULTURE,
       keywords |-> {"movie", "music", "song", "grammy", "oscar", "celebrity",
                     "spotify"}],
      [topic |-> NEWS,
       keywords |-> {"war", "weather", "climate", "news", "global"}]>>

\* kw occurs in text: text is some prefix, then kw, then some suffix
Occurs(kw, text) ==
    \E i \in 0..Len(text) : \E j \in i..Len(text) : SubSeq(text, i + 1, j) = kw

RuleApplies(r, text) == \E kw \in Rules[r].keywords : Occurs(kw, text)

FirstRuleTopic(text) ==
    IF \E r \in 1..Len(Rules) : RuleApplies(r, text)
    THEN Rules[CHOOSE r \in 1..Len(Rules) :
                  /\ RuleApplies(r, text)
                  /\ \A q \in 1..(r - 1) : ~RuleApplies(q, text)].topic
    ELSE CATEGORY_OTHER

C8_FirstMatch ==
    cls.category # Undefined =>
        /\ cls.category \in CATEGORIES
        /\ cls.category = FirstRuleTopic(toLowerCase(MarketText(cls.market)))
        /\ (Has(cls.market, "question") /\ cls.market.question = "bitcoin price surge")
              => cls.category = CRYPTO

\* "bitcoin price surge", which holds a Crypto and a Business keyword, has
\* been classified
C8_Witness ==
    /\ cls.category = CRYPTO
    /\ cls.market = [question |-> "bitcoin price surge"]
    /\ RuleApplies(1, "bitcoin price surge  ")
    /\ RuleApplies(4, "bitcoin price surge  ")

(***************************************************************************)
(* C9. Toggle is an involution with no lost update: the flag of a chat for *)
(* a topic differs from its value at creation, true, exactly when the chat *)
(* has toggled that topic an odd number of times, whatever else ran in     *)
(* between.                                                                *)
(***************************************************************************)
C9_ToggleParity ==
    /\ \A i \in 1..Len(userPrefs) : \A key \in ToggleKeys :
          Flag(userPrefs[i].prefs, key) = (nToggle[<<userPrefs[i].chatId, key>>] % 2 = 0)
    /\ \A ch \in Chats \ MapKeys(userPrefs) : \A key \in ToggleKeys :
          nToggle[<<ch, key>>] = 0

\* a chat has toggled Business twice while a delivery of a Business market
\* was awaited, and has Business enabled again
C9_Witness ==
    \E ch \in Chats :
        /\ nToggle[<<ch, BUSINESS>>] = 2
        /\ MapHas(userPrefs, ch)
        /\ Flag(MapGet(userPrefs, ch), BUSINESS)
        /\ \E c \in Cycles :
              /\ cycle[c].pc = "send"
              /\ cycle[c].call.category = BUSINESS
              /\ ch \in cycle[c].call.flipped

(***************************************************************************)
(* C10. Preference records are created lazily, default-on, and are never   *)
(* deleted: the Map has a record for exactly the chats that have sent      *)
(* /start, /settings or a toggle; a record that a step creates has every   *)
(* topic enabled but the one that very step toggled; a record that exists  *)
(* exists after every step.                                                *)
(***************************************************************************)
C10_RecordsOfInteracted ==
    /\ MapKeys(userPrefs) = interacted
    /\ \A i, j \in 1..Len(userPrefs) : userPrefs[i].chatId = userPrefs[j].chatId => i = j
    /\ \A i \in 1..Len(userPrefs) : CATEGORIES \subseteq DOMAIN userPrefs[i].prefs

C10_ToggledNow(ch, t) ==
    /\ t \in ToggleKeys
    /\ nToggle'[<<ch, t>>] # nToggle[<<ch, t>>]

C10_CreatedDefaultOn ==
    \A ch \in Chats :
        /\ MapHas(userPrefs, ch) => MapHas(userPrefs', ch)
        /\ (~MapHas(userPrefs, ch) /\ MapHas(userPrefs', ch)) =>
              \A t \in CATEGORIES : MapGet(userPrefs', ch)[t] = ~C10_ToggledNow(ch, t)

C10_LazyDefaultOn == []C10_RecordsOfInteracted /\ [][C10_CreatedDefaultOn]_vars

\* one chat has a record with the 8 topics enabled, the other has not
\* interacted and has none
C10_Witness ==
    /\ Len(userPrefs) = 1
    /\ \A t \in CATEGORIES : userPrefs[1].prefs[t]
    /\ interacted = {userPrefs[1].chatId}
    /\ \E ch \in Chats : ~MapHas(userPrefs, ch)

(***************************************************************************)
(* C11. Sequential routing: new markets are routed one at a time, in the   *)
(* order of the response; the deliveries of one market have all settled    *)
(* before the first delivery of the next market starts, so at no moment    *)
(* are deliveries for two different markets awaited.                       *)
(***************************************************************************)
\* the markets a delivery is being awaited for
InFlightMarkets == {cycle[c].call.market : c \in {b \in Cycles : cycle[b].pc = "send"}}

C11_OneMarketInFlight == Cardinality(InFlightMarkets) <= 1

(***************************************************************************)
(* A malformed upstream: the first request that settles gets an empty      *)
(* array, the second a body that is a string, the third one that is an     *)
(* object.                                                                 *)
(***************************************************************************)
MalformedFeed ==
    [scripted |-> TRUE,
     rest |-> <<[settled |-> "resolved",
                 data |-> [kind |-> "array", items |-> <<>>]],
                [settled |-> "resolved",
                 data |-> [kind |-> "string", items |-> <<"ch", "ch">>]],
                [settled |-> "resolved",
                 data |-> [kind |-> "object", items |-> <<>>]]>>,
     any |-> {}]

InitMalformed == InitBot /\ feed = MalformedFeed /\ cls = <<>>

SpecMalformed == InitMalformed /\ [][Next]_vars

\* this step settles the fetch of invocation c with the next scripted response
Answered(c) ==
    /\ cycle[c].pc = "fetch"
    /\ cycle'[c].pc # "fetch"
    /\ feed.rest # <<>>
    /\ feed'.rest = Tail(feed.rest)

(***************************************************************************)
(* C12. A malformed response is an empty cycle: when the request succeeds  *)
(* with a body that is no array of markets (a string, an object), the      *)
(* invocation routes nothing, leaves seenMarkets as it was, ends, and the  *)
(* process keeps running.                                                  *)
(***************************************************************************)
C12_EmptyCycle ==
    \A c \in Cycles :
        (/\ Answered(c)
         /\ Head(feed.rest).settled = "resolved"
         /\ Head(feed.rest).data.kind \in {"string", "object"})
        => /\ routed' = routed
           /\ seenMarkets' = seenMarkets
           /\ cycle'[c].pc = "idle"
           /\ phase' = "running"

C12_MalformedIsEmpty == [][C12_EmptyCycle]_vars

(***************************************************************************)
(* The scenario of two polls under the scheduling the code has: the event  *)
(* loop runs the module body and the timer's callback when they are due,   *)
(* and the transport settles every delivery.  Nothing makes the upstream   *)
(* answer: axios.get is called without a timeout (lines 160-167), so the   *)
(* settling of a fetch is left to the upstream.                            *)
(***************************************************************************)
Scheduling ==
    /\ WF_vars(Startup)
    /\ WF_vars(Tick)
    /\ \A c \in Cycles : WF_vars(\E result \in {"ok", "failed"} : SendSettles(c, result))

SpecScheduled == InitScenario /\ [][Next]_vars /\ Scheduling

(***************************************************************************)
(* C13. No poll cycle blocks for ever: every invocation of monitorMarkets  *)
(* that has started ends, also when the upstream never answers its         *)
(* request, the fetch being given up after a bounded time.                 *)
(***************************************************************************)
C13_EveryCycleEnds ==
    \A c \in Cycles : (cycle[c].pc # "idle") ~> (cycle[c].pc = "idle")

(***************************************************************************)
(* C14. seenMarkets is monotonic: it is empty when the process starts and  *)
(* no step of the system removes an id from it.                            *)
(***************************************************************************)
C14_EmptyAtStart == phase = "boot" => seenMarkets = {}

C14_NeverRemoved == seenMarkets \subseteq seenMarkets'

C14_Monotonic == []C14_EmptyAtStart /\ [][C14_NeverRemoved]_vars

\* both markets are seen, one by the baseline and one by a routing, after a
\* rejected fetch and a failed delivery, and a chat has toggled
C14_Witness ==
    /\ seenMarkets = {"1", "2"}
    /\ baseline = {"1"}
    /\ routed = <<"m2">>
    /\ fetchFailed
    /\ TogglesHandled > 0
    /\ \E c \in Cycles :
          /\ cycle[c].pc = "send"
          /\ \E i \in 1..Len(cycle[c].call.att) : cycle[c].call.att[i].result = "failed"

(***************************************************************************)
(* C15. Preferences change only through the owner's toggles: no step       *)
(* changes a flag of an existing record but a toggle callback of that      *)
(* chat for that topic, and such a toggle flips that flag and leaves the   *)
(* chat's other flags and the other chats' records as they were.           *)
(***************************************************************************)
C15_Frame ==
    \A ch \in MapKeys(userPrefs) :
        /\ MapHas(userPrefs', ch)
        /\ LET p == MapGet(userPrefs, ch)
               q == MapGet(userPrefs', ch)
           IN /\ DOMAIN q = DOMAIN p
              /\ \A t \in DOMAIN p :
                    q[t] # p[t] =>
                        /\ t \in ToggleKeys
                        /\ nToggle'[<<ch, t>>] = nToggle[<<ch, t>>] + 1
              /\ \A t \in ToggleKeys :
                    nToggle'[<<ch, t>>] # nToggle[<<ch, t>>] =>
                        /\ q[t] = ~p[t]
                        /\ \A u \in DOMAIN p \ {t} : q[u] = p[u]
                        /\ \A other \in MapKeys(userPrefs) \ {ch} :
                              MapGet(userPrefs', other) = MapGet(userPrefs, other)

C15_OnlyOwnToggles == [][C15_Frame]_vars

\* two chats have records; one has toggled Business off, the other has all
\* topics enabled and has never toggled; a market has been routed and a
\* delivery of it has failed
C15_Witness ==
    /\ Len(userPrefs) = 2
    /\ \E a, b \in Chats :
          /\ a # b
          /\ nToggle[<<a, BUSINESS>>] = 1
          /\ ~MapGet(userPrefs, a)[BUSINESS]
          /\ \A t \in CATEGORIES \ {BUSINESS} : MapGet(userPrefs, a)[t]
          /\ nToggle[<<b, BUSINESS>>] = 0
          /\ \A t \in CATEGORIES : MapGet(userPrefs, b)[t]
    /\ routed # <<>>
    /\ \E c \in Cycles :
          /\ cycle[c].pc = "send"
          /\ \E i \in 1..Len(cycle[c].call.att) : cycle[c].call.att[i].result = "failed"

(***************************************************************************)
(* The scenario of two polls with a chat that also sends a toggle whose    *)
(* topic is none of the 8: query.data is 'toggle_X'.                       *)
(***************************************************************************)
StrayKey == "X"

StrayData == "toggle_" \o StrayKey

NextStray ==
    \/ Next
    \/ \E chatId \in Chats : OnCallbackQuery(chatId, StrayData)

SpecStray == InitScenario /\ [][NextStray]_vars

\* this step flips or adds the stray key of the record chat ch already has
StrayToggled(ch) ==
    /\ MapHas(userPrefs, ch)
    /\ MapHas(userPrefs', ch)
    /\ StrayKey \in DOMAIN MapGet(userPrefs', ch)
    /\ \/ StrayKey \notin DOMAIN MapGet(userPrefs, ch)
       \/ MapGet(userPrefs', ch)[StrayKey] # MapGet(userPrefs, ch)[StrayKey]

(***************************************************************************)
(* C16. A toggle of an unrecognized topic leaves existing entries alone:   *)
(* the 8 flags of the chat keep their values, no other chat's record       *)
(* changes, and the routing of every topic picks the same chats as         *)
(* without the toggle.                                                     *)
(***************************************************************************)
C16_RoutesByTopic ==
    \A c \in Cycles : cycle[c].pc = "send" => cycle[c].call.category \in CATEGORIES

C16_EntriesKept ==
    \A ch \in Chats :
        StrayToggled(ch) =>
            /\ \A t \in CATEGORIES : MapGet(userPrefs', ch)[t] = MapGet(userPrefs, ch)[t]
            /\ Len(userPrefs') = Len(userPrefs)
            /\ \A i \in 1..Len(userPrefs) :
                  /\ userPrefs'[i].chatId = userPrefs[i].chatId
                  /\ userPrefs[i].chatId # ch => userPrefs'[i] = userPrefs[i]
            /\ \A t \in CATEGORIES : \A k \in 0..Len(userPrefs) :
                  NextMatch(userPrefs', t, k) = NextMatch(userPrefs, t, k)

C16_StrayToggleIsNoOp == []C16_RoutesByTopic /\ [][C16_EntriesKept]_vars

\* a chat that had disabled Business has sent the stray toggle, and the
\* market 2 is being delivered to the other chat and not to it
C16_Witness ==
    /\ routed = <<"m2">>
    /\ \E c \in Cycles :
          /\ cycle[c].pc = "send"
          /\ \E a \in cycle[c].call.known :
                /\ StrayKey \in DOMAIN MapGet(userPrefs, a)
                /\ ~MapGet(userPrefs, a)[BUSINESS]
                /\ \A t \in CATEGORIES \ {BUSINESS} : MapGet(userPrefs, a)[t]
                /\ a \notin cycle[c].call.on
                /\ a \notin cycle[c].call.flipped
                /\ Attempts(cycle[c].call, a) = 0
          /\ \E b \in cycle[c].call.on : Attempts(cycle[c].call, b) = 1

(***************************************************************************)
(* C17. A missing token is fatal before polling: when                      *)
(* TELEGRAM_BOT_TOKEN is not set the process exits without arming the      *)
(* timer, starting an invocation of monitorMarkets, requesting the feed,   *)
(* handling an update or sending a message.                                *)
(***************************************************************************)
C17_FatalBeforePolling ==
    ~token =>
        /\ phase \in {"boot", "exited"}
        /\ ~timer
        /\ \A c \in Cycles : cycle[c] = IdleCycle
        /\ routed = <<>>
        /\ seenMarkets = {}
        /\ firstRun
        /\ userPrefs = <<>>
        /\ interacted = {}
        /\ ~fetchFailed

\* the process has exited for want of a token
C17_Witness == ~token /\ phase = "exited" /\ ~timer

(***************************************************************************)
(* An outage at start-up: the first request that settles is rejected, the  *)
(* second gets the markets 1 and 2, which both exist already, the third    *)
(* gets them again.                                                        *)
(***************************************************************************)
OutageFeed ==
    [scripted |-> TRUE,
     rest |-> <<Rejected,
                [settled |-> "resolved",
                 data |-> [kind |-> "array", items |-> <<"m1", "m2">>]],
                [settled |-> "resolved",
                 data |-> [kind |-> "array", items |-> <<"m1", "m2">>]]>>,
     any |-> {}]

InitOutage == InitBot /\ feed = OutageFeed /\ cls = <<>>

SpecOutage == InitOutage /\ [][Next]_vars

\* the markets of the first response of a script that is not a rejection
RECURSIVE FirstFetched(_)
FirstFetched(script) ==
    IF script = <<>> THEN <<>>
    ELSE IF Head(script).settled = "resolved" THEN Head(script).data.items
    ELSE FirstFetched(Tail(script))

(***************************************************************************)
(* C18. The baseline covers the markets that exist already whatever the    *)
(* fetch outcomes: no market of the first successful fetch after the       *)
(* start is ever routed, also when fetches before it were rejected.        *)
(***************************************************************************)
C18_BaselineCoversFirstSuccess ==
    \A i \in 1..Len(routed) : RoutedId(i) \notin IdsOf(FirstFetched(OutageFeed.rest))

(***************************************************************************)
(* C19. Toggles interleave safely with a routing under way: a delivery of  *)
(* a market of topic T is started only to a chat whose flag for T is true  *)
(* at the moment it is started; a chat that had T disabled when the        *)
(* routing of a market began and has not toggled it since gets no          *)
(* delivery of that market.                                                *)
(***************************************************************************)
\* this step starts a delivery in invocation c
Initiated(c) ==
    /\ cycle'[c].pc = "send"
    /\ \/ cycle[c].pc # "send"
       \/ cycle'[c].call.market # cycle[c].call.market
       \/ Len(cycle'[c].call.att) > Len(cycle[c].call.att)

C19_EnabledWhenStarted ==
    \A c \in Cycles :
        Initiated(c) =>
            LET call == cycle'[c].call
                to == call.att[Len(call.att)].chatId
            IN /\ call.att[Len(call.att)].result = "pending"
               /\ MapHas(userPrefs, to)
               /\ call.category \in DOMAIN MapGet(userPrefs, to)
               /\ MapGet(userPrefs, to)[call.category]
               /\ MapGet(userPrefs', to)[call.category]

C19_DisabledGetsNone ==
    \A c \in Cycles :
        cycle[c].pc = "send" =>
            \A ch \in (cycle[c].call.known \ cycle[c].call.on) \ cycle[c].call.flipped :
                \A i \in 1..Len(cycle[c].call.att) : cycle[c].call.att[i].chatId # ch

C19_TogglesInterleave == []C19_DisabledGetsNone /\ [][C19_EnabledWhenStarted]_vars

\* a chat that had Business disabled when the routing of a Business market
\* began enabled it while the delivery to the other chat was awaited, and
\* its own delivery has then been started
C19_Witness ==
    \E c \in Cycles :
        /\ cycle[c].pc = "send"
        /\ cycle[c].call.category = BUSINESS
        /\ Len(cycle[c].call.att) = 2
        /\ LET to == cycle[c].call.att[2].chatId
           IN /\ cycle[c].call.att[2].result = "pending"
              /\ to \in cycle[c].call.known
              /\ to \notin cycle[c].call.on
              /\ to \in cycle[c].call.flipped
              /\ nToggle[<<to, BUSINESS>>] = 2
              /\ MapGet(userPrefs, to)[BUSINESS]

(***************************************************************************)
(* C20. The change from bootstrapping to steady happens once: firstRun is  *)
(* true at the start; the step that clears it is the end of one            *)
(* invocation, which marks what it fetched seen and routes nothing; while  *)
(* firstRun is true nothing is marked or routed; once false it stays       *)
(* false, no further baseline pass is made and every invocation routes     *)
(* only ids that seenMarkets lacks, also when two invocations were under   *)
(* way with firstRun still true.                                           *)
(***************************************************************************)
C20_StartsBootstrapping == phase = "boot" => firstRun /\ baseline = {}

C20_Transition ==
    /\ ~firstRun => ~firstRun'
    /\ (firstRun /\ ~firstRun') =>
          /\ routed' = routed
          /\ baseline' \subseteq seenMarkets'
          /\ Cardinality({c \in Cycles : cycle[c].pc = "fetch" /\ cycle'[c] = IdleCycle}) = 1
          /\ \A c \in Cycles : cycle[c].pc # "fetch" => cycle'[c] = cycle[c]
    /\ (firstRun /\ firstRun') => seenMarkets' = seenMarkets /\ routed' = routed
    /\ ~firstRun =>
          /\ baseline' = baseline
          /\ Len(routed') >= Len(routed)
          /\ \A i \in (Len(routed) + 1)..Len(routed') :
                IdOf(Entity[routed'[i]]) \notin seenMarkets

C20_OneTransition == []C20_StartsBootstrapping /\ [][C20_Transition]_vars

\* the start-up invocation and a timer invocation were both awaiting their
\* fetch with firstRun true; one has made the baseline pass, the other is
\* still awaiting and will diff
C20_Witness ==
    /\ ~firstRun
    /\ cycle[1].pc = "fetch"
    /\ cycle[2] = IdleCycle
    /\ baseline = {"1"}
    /\ seenMarkets = {"1"}
    /\ routed = <<>>
    /\ ~fetchFailed

====
